---- MODULE Spec2Model ----
(***************************************************************************)
(* SpotPriceApp: the price client (data/api_client.py) and the price       *)
(* limits (domain/entities.py).                                            *)
(*                                                                         *)
(* Time is counted in ticks of the clock's resolution (one microsecond in  *)
(* the program); a calendar day lasts TicksPerDay ticks.  A datetime that  *)
(* carries a zone is modelled by its UTC instant, which is what Python's   *)
(* comparison and equality of aware datetimes use.  Timestamps of the      *)
(* response carry a zone designator or are unparsable text.                *)
(***************************************************************************)
EXTENDS Integers, Sequences, FiniteSets, TLC

VARIABLES
    server,            \* what the price API answers to a request
    now,               \* the clock, datetime.now(timezone.utc)
    price_limits,      \* MainWindow.price_limits
    result,            \* the outcome of the last call of the client
    requests,          \* the HTTP requests that the last call issued
    lower_limit_spin,  \* MainWindow.lower_limit_spin.value()
    upper_limit_spin,  \* MainWindow.upper_limit_spin.value()
    radio,             \* the checked notification radio button
    dialog,            \* the message box that the last handler showed
    timer,             \* MainWindow.timer and its timeouts
    stack              \* the handlers that the GUI thread is inside of

\* the state of the main window apart from price_limits
uiVars == <<lower_limit_spin, upper_limit_spin, radio, dialog, timer, stack>>

vars == <<server, now, price_limits, result, requests,
          lower_limit_spin, upper_limit_spin, radio, dialog, timer, stack>>

----------------------------------------------------------------------------
(* Bounds of the model *)

\* ticks in one calendar day (timedelta(days=1), scaled)
TicksPerDay == 2

\* longest prices list of a response that may also be malformed
MaxRawLen == 2

\* longest prices list of a feed for the hour selection
MaxHourLen == 3

\* instants of the hour-selection feeds range over 0..MaxHourTime
MaxHourTime == 3

\* longest prices list of a feed for the daily window
MaxDailyLen == 3

\* calendar days that the daily-window feeds and the clock range over
DailyDays == 3

\* the limits range over 0..MaxLimit
MaxLimit == 4

\* ticks by which the zone "+01:00" is ahead of UTC (one hour, scaled)
ZoneOffset == 1

(* Program constants *)

\* timedelta(microseconds=1): one tick
Microsecond == 1

----------------------------------------------------------------------------
(* Values *)

NoError == [type |-> "", msg |-> ""]

Error(type, msg) == [type |-> type, msg |-> msg]

\* the outcome of a call: a returned value or a raised exception
Returned(v) == [kind |-> "ok", value |-> v, err |-> NoError]

Raised(e) == [kind |-> "error", value |-> <<>>, err |-> e]

\* domain/entities.py: PricePoint
PricePoint(price, start_date, end_date) ==
    [price |-> price, start_date |-> start_date, end_date |-> end_date]

\* domain/entities.py: PriceLimits
PriceLimits(lower_limit, upper_limit) ==
    [lower_limit |-> lower_limit, upper_limit |-> upper_limit]

\* requests.exceptions.RequestException and its subclasses
RequestExceptions == {"ConnectionError", "HTTPError"}

----------------------------------------------------------------------------
(* The response of the server *)

Zones == {"Z", "+01:00"}

\* a timestamp string: a wall-clock reading followed by a zone designator,
\* or text that is no ISO-8601 timestamp (zone "bad")
TimeString(wall, zone) == [wall |-> wall, zone |-> zone]

BadTimeString == TimeString(0, "bad")

EntryKeys == {"price", "startDate", "endDate"}

\* one JSON object of the prices list; a key that is absent has no value
\* (the placeholder is never read)
Entry(keys, price, startDate, endDate) ==
    [keys |-> keys,
     price |-> IF "price" \in keys THEN price ELSE 0,
     startDate |-> IF "startDate" \in keys THEN startDate ELSE BadTimeString,
     endDate |-> IF "endDate" \in keys THEN endDate ELSE BadTimeString]

\* a well-formed entry with UTC ("Z") timestamps, as the API documents them
UtcEntry(price, start, end) ==
    Entry(EntryKeys, price, TimeString(start, "Z"), TimeString(end, "Z"))

\* what requests.get meets: a failure of the connection, an error status,
\* or a success status with a JSON body
Response(status, keys, prices) ==
    [status |-> status, keys |-> keys, prices |-> prices]

OkResponse(prices) == Response("ok", {"prices"}, prices)

\* all sequences over S of length at most n
SeqUpTo(S, n) == UNION {[1..k -> S] : k \in 0..n}

----------------------------------------------------------------------------
(* Sorting a list of price points *)

\* an insertion that puts a point after the points of equal start_date
RECURSIVE InsertByStartDate_AfterEqual(_, _)
InsertByStartDate_AfterEqual(p, sorted) ==
    IF sorted = <<>> THEN <<p>>
    ELSE IF p.start_date < Head(sorted).start_date THEN <<p>> \o sorted
    ELSE <<Head(sorted)>> \o InsertByStartDate_AfterEqual(p, Tail(sorted))

\* list.sort(key=start_date): stable, ascending
RECURSIVE InsertByStartDate(_, _)
InsertByStartDate(p, sorted) ==
    IF sorted = <<>> THEN <<p>>
    ELSE IF p.start_date <= Head(sorted).start_date THEN <<p>> \o sorted
    ELSE <<Head(sorted)>> \o InsertByStartDate(p, Tail(sorted))

RECURSIVE SortByStartDate(_)
SortByStartDate(prices) ==
    IF prices = <<>> THEN <<>>
    ELSE InsertByStartDate(Head(prices), SortByStartDate(Tail(prices)))

----------------------------------------------------------------------------
(* get_latest_prices *)

\* str.replace("Z", "+00:00") on a timestamp string
ReplaceZ(s) == IF s.zone = "Z" THEN TimeString(s.wall, "+00:00") ELSE s

\* the offset from UTC that a zone designator states
UtcOffset(zone) == IF zone = "+01:00" THEN ZoneOffset ELSE 0

\* datetime.fromisoformat: the instant of a timestamp with a numeric zone;
\* ValueError for any other text (a bare "Z" is rejected before Python 3.11)
fromisoformat(s) ==
    IF s.zone \in {"+00:00", "+01:00"}
    THEN Returned(<<s.wall - UtcOffset(s.zone)>>)
    ELSE Raised(Error("ValueError", "Invalid isoformat string"))

\* the timestamp conversion of lines 47 and 48
ParseDate(s) == fromisoformat(ReplaceZ(s))

\* PricePoint(price=..., start_date=..., end_date=...) for one entry: the
\* keyword arguments are evaluated in order and the first exception leaves
ParseEntry(e) ==
    IF "price" \notin e.keys THEN Raised(Error("KeyError", "price"))
    ELSE IF "startDate" \notin e.keys THEN Raised(Error("KeyError", "startDate"))
    ELSE LET s == ParseDate(e.startDate) IN
         IF s.kind = "error" THEN s
         ELSE IF "endDate" \notin e.keys THEN Raised(Error("KeyError", "endDate"))
         ELSE LET n == ParseDate(e.endDate) IN
              IF n.kind = "error" THEN n
              ELSE Returned(<<PricePoint(e.price, s.value[1], n.value[1])>>)

\* lines 44-51 skipping an entry that raises instead of abandoning the list
RECURSIVE ParseEntries_SkipMalformed(_)
ParseEntries_SkipMalformed(es) ==
    IF es = <<>> THEN Returned(<<>>)
    ELSE LET h == ParseEntry(Head(es))
             t == ParseEntries_SkipMalformed(Tail(es))
         IN IF h.kind = "error" THEN t ELSE Returned(h.value \o t.value)

\* the list comprehension of lines 44-51: entries in order, the first
\* exception abandons the list
RECURSIVE ParseEntries(_)
ParseEntries(es) ==
    IF es = <<>> THEN Returned(<<>>)
    ELSE LET h == ParseEntry(Head(es)) IN
         IF h.kind = "error" THEN h
         ELSE LET t == ParseEntries(Tail(es)) IN
              IF t.kind = "error" THEN t
              ELSE Returned(h.value \o t.value)

\* get_latest_prices returning the points sorted by start_date
get_latest_prices_Sorted(resp) ==
    IF resp.status = "ConnectionError"
    THEN Raised(Error("ConnectionError", "request failed"))
    ELSE IF resp.status = "HTTPError"
    THEN Raised(Error("HTTPError", "error status"))
    ELSE IF "prices" \notin resp.keys
    THEN Raised(Error("KeyError", "prices"))
    ELSE LET parsed == ParseEntries(resp.prices)
         IN IF parsed.kind = "error" THEN parsed
            ELSE Returned(SortByStartDate(parsed.value))

\* get_latest_prices reading the list with data.get("prices", [])
get_latest_prices_DefaultEmpty(resp) ==
    IF resp.status = "ConnectionError"
    THEN Raised(Error("ConnectionError", "request failed"))
    ELSE IF resp.status = "HTTPError"
    THEN Raised(Error("HTTPError", "error status"))
    ELSE IF "prices" \notin resp.keys
    THEN Returned(<<>>)
    ELSE ParseEntries(resp.prices)

\* lines 40-41 repeating the request once when it fails
HttpGets_RetryOnFailure(resp) ==
    IF resp.status = "ok" THEN <<"latest-prices.json">>
    ELSE <<"latest-prices.json", "latest-prices.json">>

\* the requests that get_latest_prices sends: the one requests.get of line
\* 40, whatever comes back (raise_for_status and json() send nothing)
HttpGets(resp) == <<"latest-prices.json">>

\* lines 40-51: requests.get raises when the connection fails,
\* raise_for_status on an error status, data["prices"] on a missing key
get_latest_prices(resp) ==
    IF resp.status = "ConnectionError"
    THEN Raised(Error("ConnectionError", "request failed"))
    ELSE IF resp.status = "HTTPError"
    THEN Raised(Error("HTTPError", "error status"))
    ELSE IF "prices" \notin resp.keys
    THEN Raised(Error("KeyError", "prices"))
    ELSE ParseEntries(resp.prices)

----------------------------------------------------------------------------
(* get_current_and_next_hour_prices *)

\* line 69 with the end of the interval included
ContainsNow_ClosedEnd(price, t) == price.start_date <= t /\ t <= price.end_date

\* line 69 with the start of the interval excluded
ContainsNow_OpenStart(price, t) == price.start_date < t /\ t < price.end_date

\* the condition of the generator of line 69
ContainsNow(price, t) == price.start_date <= t /\ t < price.end_date

\* line 78 taking any point that starts at or after the end of the current one
StartsAtEndOf_OrLater(price, current_price) ==
    price.start_date >= current_price.end_date

\* the condition of the generator of line 78
StartsAtEndOf(price, current_price) == price.start_date = current_price.end_date

\* next(generator, None) of line 68: the first price containing t, as a
\* sequence of at most one element
RECURSIVE FirstContaining(_, _)
FirstContaining(prices, t) ==
    IF prices = <<>> THEN <<>>
    ELSE IF ContainsNow(Head(prices), t) THEN <<Head(prices)>>
    ELSE FirstContaining(Tail(prices), t)

\* next(generator, None) of line 77
RECURSIVE FirstStartingAtEndOf(_, _)
FirstStartingAtEndOf(prices, current_price) ==
    IF prices = <<>> THEN <<>>
    ELSE IF StartsAtEndOf(Head(prices), current_price) THEN <<Head(prices)>>
    ELSE FirstStartingAtEndOf(Tail(prices), current_price)

\* lines 66-85 without the sort and with the successor taken by position:
\* the element that follows the current one in the list
SelectCurrentAndNext_ByPosition(fetched, t) ==
    LET found == {i \in 1..Len(fetched) : ContainsNow(fetched[i], t)}
    IN IF found = {}
       THEN Raised(Error("ValueError", "No current price found"))
       ELSE LET i == CHOOSE k \in found : \A m \in found : k <= m
            IN IF i = Len(fetched)
               THEN Raised(Error("ValueError", "No next hour price found"))
               ELSE Returned(<<fetched[i], fetched[i + 1]>>)

\* lines 66-85 returning None instead of raising when a price is missing
SelectCurrentAndNext_NoneWhenMissing(fetched, t) ==
    LET prices == SortByStartDate(fetched)
        current_price == FirstContaining(prices, t)
    IN IF current_price = <<>>
       THEN Returned(<<>>)
       ELSE LET next_price == FirstStartingAtEndOf(prices, current_price[1])
            IN IF next_price = <<>>
               THEN Returned(<<>>)
               ELSE Returned(<<current_price[1], next_price[1]>>)

\* lines 66-85 on the fetched prices
SelectCurrentAndNext(fetched, t) ==
    LET prices == SortByStartDate(fetched)
        current_price == FirstContaining(prices, t)
    IN IF current_price = <<>>
       THEN Raised(Error("ValueError", "No current price found"))
       ELSE LET next_price == FirstStartingAtEndOf(prices, current_price[1])
            IN IF next_price = <<>>
               THEN Raised(Error("ValueError", "No next hour price found"))
               ELSE Returned(<<current_price[1], next_price[1]>>)

get_current_and_next_hour_prices(resp, t) ==
    LET fetched == get_latest_prices(resp)
    IN IF fetched.kind = "error" THEN fetched
       ELSE SelectCurrentAndNext(fetched.value, t)

----------------------------------------------------------------------------
(* get_daily_prices *)

\* now.replace(hour=0, minute=0, second=0, microsecond=0)
StartOfDay(t) == t - (t % TicksPerDay)

\* lines 105-106 with the last instant of tomorrow left out
InDailyWindow_OpenEnd(price, t) ==
    LET start_of_today == StartOfDay(t)
        end_of_today == start_of_today + TicksPerDay - Microsecond
        start_of_tomorrow == end_of_today + Microsecond
        end_of_tomorrow == start_of_tomorrow + TicksPerDay - Microsecond
    IN \/ (start_of_today <= price.start_date /\ price.start_date <= end_of_today)
       \/ (start_of_tomorrow <= price.start_date /\ price.start_date < end_of_tomorrow)

\* the condition of the comprehension of lines 105-106
InDailyWindow(price, t) ==
    LET start_of_today == StartOfDay(t)
        end_of_today == start_of_today + TicksPerDay - Microsecond
        start_of_tomorrow == end_of_today + Microsecond
        end_of_tomorrow == start_of_tomorrow + TicksPerDay - Microsecond
    IN \/ (start_of_today <= price.start_date /\ price.start_date <= end_of_today)
       \/ (start_of_tomorrow <= price.start_date /\ price.start_date <= end_of_tomorrow)

\* the comprehension of lines 103-107
RECURSIVE DailyPrices(_, _)
DailyPrices(prices, t) ==
    IF prices = <<>> THEN <<>>
    ELSE (IF InDailyWindow(Head(prices), t) THEN <<Head(prices)>> ELSE <<>>)
         \o DailyPrices(Tail(prices), t)

\* get_daily_prices raising on an empty selection, as the hour selection does
get_daily_prices_RaiseWhenEmpty(resp, t) ==
    LET fetched == get_latest_prices(resp)
    IN IF fetched.kind = "error" THEN fetched
       ELSE IF DailyPrices(fetched.value, t) = <<>>
       THEN Raised(Error("ValueError", "No daily prices found"))
       ELSE Returned(DailyPrices(fetched.value, t))

get_daily_prices(resp, t) ==
    LET fetched == get_latest_prices(resp)
    IN IF fetched.kind = "error" THEN fetched
       ELSE Returned(DailyPrices(fetched.value, t))

----------------------------------------------------------------------------
(* PriceLimits.is_price_within_limits *)

\* line 46 with the lower bound exclusive
is_price_within_limits_OpenLower(limits, price) ==
    limits.lower_limit < price /\ price <= limits.upper_limit

is_price_within_limits(limits, price) ==
    limits.lower_limit <= price /\ price <= limits.upper_limit

----------------------------------------------------------------------------
(* MainWindow.update_prices: the two threshold comparisons *)

\* line 657 with the lower limit itself counted as below
BelowLowerLimit_OrEqual(limits, price) == price <= limits.lower_limit

\* line 657: current_price.price < self.price_limits.lower_limit
BelowLowerLimit(limits, price) == price < limits.lower_limit

\* line 658: current_price.price > self.price_limits.upper_limit
AboveUpperLimit(limits, price) == price > limits.upper_limit

----------------------------------------------------------------------------
(* The state machine: a server, a clock, the limits, and the last call *)

\* the outcome of the call `op`, which read the clock as t (0 when the call
\* reads no clock) and was given arg (0 when it takes none)
Result(op, t, arg, outcome) ==
    [op |-> op, now |-> t, arg |-> arg,
     kind |-> outcome.kind, value |-> outcome.value, err |-> outcome.err]

NoCall == Result("none", 0, 0, Returned(<<>>))

\* presentation/main_window.py:182
DefaultLimits == PriceLimits(0, 10)

\* timestamp strings of the responses that may be malformed: two instants,
\* one of them written in two zones, and unparsable text
RawTimeStrings ==
    {TimeString(0, "Z"), TimeString(1, "Z"), TimeString(1, "+01:00"), BadTimeString}

RawEntries ==
    {Entry(k, 1, s, e) : k \in SUBSET EntryKeys, s \in RawTimeStrings, e \in RawTimeStrings}

\* every response of the bounded server: failures of the transport, bodies
\* without the prices key, and lists of well-formed and malformed entries
Responses ==
    {Response("ConnectionError", {}, <<>>), Response("HTTPError", {}, <<>>),
     Response("ok", {}, <<>>)}
    \cup {OkResponse(es) : es \in SeqUpTo(RawEntries, MaxRawLen)}

\* entries of the hour-selection feeds: any interval, empty ones included
\* (lines 66-85 read the end_date only of a point that covers now, so an
\* entry that ends before it starts acts as an empty one)
HourEntries ==
    UNION {{UtcEntry(1, s, e) : e \in s..MaxHourTime} : s \in 0..MaxHourTime}

HourResponses == {OkResponse(es) : es \in SeqUpTo(HourEntries, MaxHourLen)}

DailyTimes == 0..(DailyDays * TicksPerDay - 1)

DailyEntries == {UtcEntry(1, s, s + 1) : s \in DailyTimes}

DailyResponses == {OkResponse(es) : es \in SeqUpTo(DailyEntries, MaxDailyLen)}

LimitValues == 0..MaxLimit

PriceValues == (0 - 1)..(MaxLimit + 1)

\* no message box shown
NoDialog == [kind |-> "none", text |-> "", price |-> 0]

\* no timer started
NoTimer == [active |-> FALSE, interval |-> 0, due |-> 0, fired |-> <<>>]

\* MainWindow.__init__ and setup_ui as far as the widgets go: the spin boxes
\* show the default limits and the lower-prices radio button is checked
WindowConstructed ==
    /\ lower_limit_spin = DefaultLimits.lower_limit
    /\ upper_limit_spin = DefaultLimits.upper_limit
    /\ radio = "lower"
    /\ dialog = NoDialog
    /\ timer = NoTimer
    /\ stack = <<>>

Init ==
    /\ server \in Responses
    /\ now = 0
    /\ price_limits = DefaultLimits
    /\ result = NoCall
    /\ requests = <<>>
    /\ WindowConstructed

InitHour ==
    /\ server \in HourResponses
    /\ now \in 0..MaxHourTime
    /\ price_limits = DefaultLimits
    /\ result = NoCall
    /\ requests = <<>>
    /\ WindowConstructed

InitDaily ==
    /\ server \in DailyResponses
    /\ now \in DailyTimes
    /\ price_limits = DefaultLimits
    /\ result = NoCall
    /\ requests = <<>>
    /\ WindowConstructed

InitLimits ==
    /\ server = OkResponse(<<>>)
    /\ now = 0
    /\ price_limits \in {PriceLimits(l, u) : l \in LimitValues, u \in LimitValues}
    /\ result = NoCall
    /\ requests = <<>>
    /\ WindowConstructed

CallGetLatestPrices ==
    /\ result' = Result("get_latest_prices", 0, 0, get_latest_prices(server))
    /\ requests' = HttpGets(server)
    /\ UNCHANGED <<server, now, price_limits>>
    /\ UNCHANGED uiVars

CallGetCurrentAndNextHourPrices ==
    /\ result' = Result("get_current_and_next_hour_prices", now, 0,
                        get_current_and_next_hour_prices(server, now))
    /\ requests' = HttpGets(server)
    /\ UNCHANGED <<server, now, price_limits>>
    /\ UNCHANGED uiVars

CallGetDailyPrices ==
    /\ result' = Result("get_daily_prices", now, 0, get_daily_prices(server, now))
    /\ requests' = HttpGets(server)
    /\ UNCHANGED <<server, now, price_limits>>
    /\ UNCHANGED uiVars

CallIsPriceWithinLimits(price) ==
    /\ result' = Result("is_price_within_limits", 0, price,
                        Returned(<<is_price_within_limits(price_limits, price)>>))
    /\ requests' = <<>>
    /\ UNCHANGED <<server, now, price_limits>>
    /\ UNCHANGED uiVars

\* responses for a server whose answer changes between calls
RefetchResponses ==
    {Response("ConnectionError", {}, <<>>), Response("HTTPError", {}, <<>>),
     Response("ok", {}, <<>>), OkResponse(<<>>),
     OkResponse(<<UtcEntry(1, 0, 1)>>),
     OkResponse(<<UtcEntry(1, 0, 1), UtcEntry(2, 1, 2)>>),
     OkResponse(<<UtcEntry(2, 1, 2), UtcEntry(1, 0, 1)>>),
     OkResponse(<<UtcEntry(1, 0, 1), Entry({"price"}, 2, BadTimeString, BadTimeString)>>)}

InitRefetch ==
    /\ server \in RefetchResponses
    /\ now = 0
    /\ price_limits = DefaultLimits
    /\ result = NoCall
    /\ requests = <<>>
    /\ WindowConstructed

\* the server publishes other prices, or starts or stops failing
ServerPublishes ==
    /\ server' \in RefetchResponses
    /\ UNCHANGED <<now, price_limits, result, requests>>
    /\ UNCHANGED uiVars

Next ==
    \/ CallGetLatestPrices
    \/ CallGetCurrentAndNextHourPrices
    \/ CallGetDailyPrices

NextHour == CallGetCurrentAndNextHourPrices

NextDaily == CallGetDailyPrices

NextLimits == \E price \in PriceValues : CallIsPriceWithinLimits(price)

NextRefetch ==
    \/ ServerPublishes
    \/ CallGetLatestPrices
    \/ CallGetCurrentAndNextHourPrices
    \/ CallGetDailyPrices

Spec == Init /\ [][Next]_vars

SpecRefetch == InitRefetch /\ [][NextRefetch]_vars

SpecHour == InitHour /\ [][NextHour]_vars

SpecDaily == InitDaily /\ [][NextDaily]_vars

SpecLimits == InitLimits /\ [][NextLimits]_vars

----------------------------------------------------------------------------
(* MainWindow: the limit spin boxes, the radio buttons, update_prices *)

\* line 654 with the "both" button ignored
NotifyLower_OnlyLower(r) == r = "lower"

\* line 654: lower_price_radio.isChecked() or both_prices_radio.isChecked()
NotifyLower(r) == r = "lower" \/ r = "both"

\* line 655: higher_price_radio.isChecked() or both_prices_radio.isChecked()
NotifyHigher(r) == r = "higher" \/ r = "both"

Radios == {"lower", "higher", "both"}

\* what update_prices read from the widgets
WidgetsRead(lower, upper, r) == [lower |-> lower, upper |-> upper, radio |-> r]

\* the "Price Alert" box of show_notification, with the bound its text names
AlertBox(bound, price) == [kind |-> "alert", text |-> bound, price |-> price]

\* the "Error" box of update_prices: "Failed to update prices: " + str(e)
ErrorBox(err) == [kind |-> "error", text |-> err.msg, price |-> 0]

\* show_notification: the message is chosen by the limits alone; when neither
\* branch assigns it, msg.setText(message) raises UnboundLocalError
show_notification(limits, price) ==
    IF BelowLowerLimit(limits, price)
    THEN Returned(<<AlertBox("lower", price)>>)
    ELSE IF AboveUpperLimit(limits, price)
    THEN Returned(<<AlertBox("higher", price)>>)
    ELSE Raised(Error("UnboundLocalError", "message"))

\* update_prices on response resp at instant t, the window holding limits
\* and the widgets showing lower, upper and r: the limits the window holds
\* afterwards, the box shown, and the outcome of the fetch
update_prices(resp, t, limits, lower, upper, r) ==
    LET fetched == get_current_and_next_hour_prices(resp, t)
    IN IF fetched.kind = "error"
       THEN [price_limits |-> limits, dialog |-> ErrorBox(fetched.err),
             fetched |-> fetched]
       ELSE LET current_price == fetched.value[1]
                new_limits == PriceLimits(lower, upper)
            IN IF \/ (NotifyLower(r)
                        /\ BelowLowerLimit(new_limits, current_price.price))
                  \/ (NotifyHigher(r)
                        /\ AboveUpperLimit(new_limits, current_price.price))
               THEN LET shown == show_notification(new_limits,
                                                   current_price.price)
                    IN [price_limits |-> new_limits,
                        dialog |-> IF shown.kind = "error"
                                   THEN ErrorBox(shown.err)
                                   ELSE shown.value[1],
                        fetched |-> fetched]
               ELSE [price_limits |-> new_limits, dialog |-> NoDialog,
                     fetched |-> fetched]

\* the variables update_prices writes; the modal box is shown and closed
\* within the handler, and `dialog` keeps the box of the last update
UpdatePricesFrom(limits, lower, upper, r) ==
    LET u == update_prices(server, now, limits, lower, upper, r)
    IN /\ price_limits' = u.price_limits
       /\ dialog' = u.dialog
       /\ result' = Result("update_prices", now, WidgetsRead(lower, upper, r),
                           u.fetched)
       /\ requests' = HttpGets(server)

\* feeds for the window: a point covering now with every price, followed by
\* a point far outside the limits or by nothing, and a failed request
WindowResponses ==
    {OkResponse(<<UtcEntry(p, 0, 1), UtcEntry(q, 1, 2)>>) :
        p \in PriceValues, q \in {0 - 1, MaxLimit + 1}}
    \cup {OkResponse(<<UtcEntry(p, 0, 1)>>) : p \in {0 - 1, MaxLimit + 1}}
    \cup {Response("ConnectionError", {}, <<>>)}

\* __init__: setup_ui, setup_timer (not followed here), then update_prices
InitWindow ==
    /\ server \in WindowResponses
    /\ now = 0
    /\ lower_limit_spin = DefaultLimits.lower_limit
    /\ upper_limit_spin = DefaultLimits.upper_limit
    /\ radio = "lower"
    /\ timer = NoTimer
    /\ stack = <<>>
    /\ LET u == update_prices(server, now, DefaultLimits,
                              DefaultLimits.lower_limit,
                              DefaultLimits.upper_limit, "lower")
       IN /\ price_limits = u.price_limits
          /\ dialog = u.dialog
          /\ result = Result("update_prices", now,
                             WidgetsRead(DefaultLimits.lower_limit,
                                         DefaultLimits.upper_limit, "lower"),
                             u.fetched)
          /\ requests = HttpGets(server)

\* the user edits the lower limit spin box
SetLowerLimit(v) ==
    /\ lower_limit_spin' = v
    /\ UNCHANGED <<server, now, price_limits, result, requests,
                   upper_limit_spin, radio, dialog, timer, stack>>

\* the user edits the upper limit spin box
SetUpperLimit(v) ==
    /\ upper_limit_spin' = v
    /\ UNCHANGED <<server, now, price_limits, result, requests,
                   lower_limit_spin, radio, dialog, timer, stack>>

\* the user checks one of the three radio buttons
SelectRadio(r) ==
    /\ radio' = r
    /\ UNCHANGED <<server, now, price_limits, result, requests,
                   lower_limit_spin, upper_limit_spin, dialog, timer, stack>>

\* the Update button
ClickUpdate ==
    /\ UpdatePricesFrom(price_limits, lower_limit_spin, upper_limit_spin, radio)
    /\ UNCHANGED <<server, now, lower_limit_spin, upper_limit_spin, radio,
                   timer, stack>>

\* change_theme: setup_ui builds new spin boxes from self.price_limits and
\* new radio buttons with the first one checked, then update_prices runs
change_theme ==
    /\ lower_limit_spin' = price_limits.lower_limit
    /\ upper_limit_spin' = price_limits.upper_limit
    /\ radio' = "lower"
    /\ UpdatePricesFrom(price_limits, price_limits.lower_limit,
                        price_limits.upper_limit, "lower")
    /\ UNCHANGED <<server, now, timer, stack>>

NextWindow ==
    \/ \E v \in LimitValues : SetLowerLimit(v)
    \/ \E v \in LimitValues : SetUpperLimit(v)
    \/ \E r \in Radios : SelectRadio(r)
    \/ ClickUpdate
    \/ change_theme

SpecWindow == InitWindow /\ [][NextWindow]_vars

----------------------------------------------------------------------------
(* MainWindow.setup_timer: the QTimer that drives update_prices *)

\* a millisecond in clock ticks (microseconds, scaled), an hour in
\* milliseconds, the hours the clock runs, the firings that are recorded
TicksPerMs == 2
MsPerHour == 3
MaxTimerHours == 3
MaxFirings == 4

TicksPerHour == MsPerHour * TicksPerMs

\* replace(minute=0, second=0, microsecond=0)
StartOfHour(t) == t - (t % TicksPerHour)

\* lines 625-630: the interval is the whole milliseconds from now to the next
\* full hour; QTimer.start(msec) on a timer that is not single-shot fires
\* every msec milliseconds from then on
setup_timer(t) ==
    LET next_hour == StartOfHour(t + TicksPerHour)
        time_until_next_hour == (next_hour - t) \div TicksPerMs
    IN [active |-> TRUE, interval |-> time_until_next_hour,
        due |-> t + time_until_next_hour * TicksPerMs, fired |-> <<>>]

\* an hourly feed from instant 0 on, and a failed request
TimerResponses ==
    {OkResponse(<<UtcEntry(1, 0, TicksPerHour),
                  UtcEntry(2, TicksPerHour, 2 * TicksPerHour)>>),
     Response("ConnectionError", {}, <<>>)}

\* __init__ at any instant of the first hour
InitTimer ==
    /\ server \in TimerResponses
    /\ now \in 0..(TicksPerHour - 1)
    /\ lower_limit_spin = DefaultLimits.lower_limit
    /\ upper_limit_spin = DefaultLimits.upper_limit
    /\ radio = "lower"
    /\ timer = setup_timer(now)
    /\ stack = <<>>
    /\ LET u == update_prices(server, now, DefaultLimits,
                              DefaultLimits.lower_limit,
                              DefaultLimits.upper_limit, "lower")
       IN /\ price_limits = u.price_limits
          /\ dialog = u.dialog
          /\ result = Result("update_prices", now,
                             WidgetsRead(DefaultLimits.lower_limit,
                                         DefaultLimits.upper_limit, "lower"),
                             u.fetched)
          /\ requests = HttpGets(server)

\* the timeout signal, delivered at the instant it is due
TimerFires ==
    /\ timer.active
    /\ timer.due = now
    /\ Len(timer.fired) < MaxFirings
    /\ UpdatePricesFrom(price_limits, lower_limit_spin, upper_limit_spin, radio)
    /\ timer' = [timer EXCEPT !.due = now + timer.interval * TicksPerMs,
                              !.fired = Append(@, now)]
    /\ UNCHANGED <<server, now, lower_limit_spin, upper_limit_spin, radio,
                   stack>>

\* the clock advances once no timeout is due
Tick ==
    /\ now < MaxTimerHours * TicksPerHour
    /\ timer.due > now \/ Len(timer.fired) >= MaxFirings
    /\ now' = now + 1
    /\ UNCHANGED <<server, price_limits, result, requests, lower_limit_spin,
                   upper_limit_spin, radio, dialog, timer, stack>>

NextTimer ==
    \/ Tick
    \/ TimerFires
    \/ ClickUpdate

SpecTimer == InitTimer /\ [][NextTimer]_vars

----------------------------------------------------------------------------
(* The GUI thread: handlers, the blocking fetch, modal boxes *)

\* the depth to which handlers are followed nesting in modal boxes
MaxStack == 3

\* what runs a fetch: the constructor's first update, the timeout signal,
\* the three buttons and the theme selector
Handlers == {"__init__", "timer", "update_button", "theme", "daily", "next_day"}

UpdateHandlers == {"__init__", "timer", "update_button", "theme"}

\* a handler on the call stack of the GUI thread, inside requests.get
\* ("fetching") or inside the exec() of a modal box ("dialog")
Frame(h, pc) == [handler |-> h, pc |-> pc]

Top(stk) == stk[Len(stk)]

Pop(stk) == SubSeq(stk, 1, Len(stk) - 1)

\* an event loop that delivers events whatever the thread is doing
EventLoopRunning_Always(stk) == TRUE

\* events are delivered by app.exec() when no handler runs and by the exec()
\* of a modal box; requests.get returns to no event loop
EventLoopRunning(stk) ==
    IF stk = <<>> THEN TRUE ELSE Top(stk).pc = "dialog"

\* a modal box takes the input of the window behind it; the timeout signal
\* is delivered by any event loop
CanDispatch(stk, h) ==
    /\ EventLoopRunning(stk)
    /\ h # "__init__"
    /\ h = "timer" => timer.active
    /\ h # "timer" => stk = <<>>

\* the box of one of the two daily views: the list, "no prices", or an error
ViewBox == [kind |-> "view", text |-> "", price |-> 0]

StackResponses ==
    {OkResponse(<<UtcEntry(0 - 1, 0, 1), UtcEntry(1, 1, 2)>>),
     OkResponse(<<UtcEntry(1, 0, 1), UtcEntry(1, 1, 2)>>),
     OkResponse(<<>>),
     Response("ConnectionError", {}, <<>>)}

\* __init__ has built the widgets and started the timer, and its call of
\* update_prices is waiting for the response
InitStack ==
    /\ server \in StackResponses
    /\ now = 0
    /\ price_limits = DefaultLimits
    /\ result = NoCall
    /\ requests = HttpGets(server)
    /\ lower_limit_spin = DefaultLimits.lower_limit
    /\ upper_limit_spin = DefaultLimits.upper_limit
    /\ radio = "lower"
    /\ dialog = NoDialog
    /\ timer = setup_timer(now)
    /\ stack = <<Frame("__init__", "fetching")>>

\* an event reaches its handler, which runs up to its requests.get;
\* change_theme rebuilds the widgets on its way there
Dispatch(h) ==
    /\ CanDispatch(stack, h)
    /\ Len(stack) < MaxStack
    /\ stack' = Append(stack, Frame(h, "fetching"))
    /\ requests' = HttpGets(server)
    /\ IF h = "theme"
       THEN /\ lower_limit_spin' = price_limits.lower_limit
            /\ upper_limit_spin' = price_limits.upper_limit
            /\ radio' = "lower"
       ELSE UNCHANGED <<lower_limit_spin, upper_limit_spin, radio>>
    /\ UNCHANGED <<server, now, price_limits, result, dialog, timer>>

\* requests.get returns or raises and the handler runs on, to its end or
\* to the exec() of a box
FetchReturns ==
    /\ stack # <<>>
    /\ Top(stack).pc = "fetching"
    /\ IF Top(stack).handler \in UpdateHandlers
       THEN /\ UpdatePricesFrom(price_limits, lower_limit_spin,
                                upper_limit_spin, radio)
            /\ stack' = IF dialog'.kind = "none"
                        THEN Pop(stack)
                        ELSE Append(Pop(stack),
                                    Frame(Top(stack).handler, "dialog"))
       ELSE /\ result' = Result("get_daily_prices", now, 0,
                                get_daily_prices(server, now))
            /\ dialog' = ViewBox
            /\ stack' = Append(Pop(stack), Frame(Top(stack).handler, "dialog"))
            /\ UNCHANGED <<price_limits, requests>>
    /\ UNCHANGED <<server, now, lower_limit_spin, upper_limit_spin, radio,
                   timer>>

\* the user closes the box on top and its exec() returns
CloseDialog ==
    /\ stack # <<>>
    /\ Top(stack).pc = "dialog"
    /\ stack' = Pop(stack)
    /\ UNCHANGED <<server, now, price_limits, result, requests,
                   lower_limit_spin, upper_limit_spin, radio, dialog, timer>>

NextStack ==
    \/ \E h \in Handlers : Dispatch(h)
    \/ FetchReturns
    \/ CloseDialog

SpecStack == InitStack /\ [][NextStack]_vars

----------------------------------------------------------------------------
(* MainWindow.show_daily_prices and show_next_day_prices *)

\* longest prices list shown to the two views, and the ticks that may pass
\* between the clock reading of get_daily_prices and that of the view
MaxViewLen == 2
MaxViewDelay == 1

\* lines 442-445 with the last instant of today left out
InTodayWindow_OpenEnd(price, t) ==
    LET start_of_today == StartOfDay(t)
        end_of_today == start_of_today + TicksPerDay - Microsecond
    IN start_of_today <= price.start_date /\ price.start_date < end_of_today

\* lines 438-445: start_of_today <= price.start_date <= end_of_today
InTodayWindow(price, t) ==
    LET start_of_today == StartOfDay(t)
        end_of_today == start_of_today + TicksPerDay - Microsecond
    IN start_of_today <= price.start_date /\ price.start_date <= end_of_today

\* lines 536-543: start_of_tomorrow <= price.start_date <= end_of_tomorrow
InTomorrowWindow(price, t) ==
    LET start_of_tomorrow == StartOfDay(t) + TicksPerDay
        end_of_tomorrow == start_of_tomorrow + TicksPerDay - Microsecond
    IN start_of_tomorrow <= price.start_date
         /\ price.start_date <= end_of_tomorrow

\* the comprehension of lines 442-445
RECURSIVE TodayPrices(_, _)
TodayPrices(prices, t) ==
    IF prices = <<>> THEN <<>>
    ELSE (IF InTodayWindow(Head(prices), t) THEN <<Head(prices)>> ELSE <<>>)
         \o TodayPrices(Tail(prices), t)

\* the comprehension of lines 540-543
RECURSIVE TomorrowPrices(_, _)
TomorrowPrices(prices, t) ==
    IF prices = <<>> THEN <<>>
    ELSE (IF InTomorrowWindow(Head(prices), t) THEN <<Head(prices)>> ELSE <<>>)
         \o TomorrowPrices(Tail(prices), t)

\* the box that says that a view has nothing to list
MessageBox(text) == [kind |-> "message", text |-> text, price |-> 0]

\* what a view read: its own clock reading and the list get_daily_prices
\* returned to it
ViewRead(t, prices) == [now |-> t, prices |-> prices]

\* a view whose get_daily_prices read the clock as t and which read it as
\* t2 itself; kept is the filter of the view
ShowPrices(op, fetched, t, t2, kept, nothing) ==
    IF fetched.kind = "error"
    THEN /\ result' = Result(op, t, ViewRead(t2, <<>>), fetched)
         /\ dialog' = ErrorBox(fetched.err)
    ELSE /\ result' = Result(op, t, ViewRead(t2, fetched.value),
                             Returned(kept))
         /\ dialog' = IF kept = <<>> THEN MessageBox(nothing) ELSE ViewBox

\* the Show Daily Prices button
show_daily_prices(delay) ==
    /\ now + delay < DailyDays * TicksPerDay
    /\ LET fetched == get_daily_prices(server, now)
       IN ShowPrices("show_daily_prices", fetched, now, now + delay,
                     TodayPrices(fetched.value, now + delay),
                     "No prices available for today.")
    /\ now' = now + delay
    /\ requests' = HttpGets(server)
    /\ UNCHANGED <<server, price_limits, lower_limit_spin, upper_limit_spin,
                   radio, timer, stack>>

\* the Show Next Day Prices button
show_next_day_prices(delay) ==
    /\ now + delay < DailyDays * TicksPerDay
    /\ LET fetched == get_daily_prices(server, now)
       IN ShowPrices("show_next_day_prices", fetched, now, now + delay,
                     TomorrowPrices(fetched.value, now + delay),
                     "Prices for next day are not available yet.")
    /\ now' = now + delay
    /\ requests' = HttpGets(server)
    /\ UNCHANGED <<server, price_limits, lower_limit_spin, upper_limit_spin,
                   radio, timer, stack>>

ViewResponses ==
    {OkResponse(es) : es \in SeqUpTo(DailyEntries, MaxViewLen)}
    \cup {Response("ConnectionError", {}, <<>>)}

InitViews ==
    /\ server \in ViewResponses
    /\ now \in DailyTimes
    /\ price_limits = DefaultLimits
    /\ result = NoCall
    /\ requests = <<>>
    /\ WindowConstructed

NextViews ==
    \/ \E delay \in 0..MaxViewDelay : show_daily_prices(delay)
    \/ \E delay \in 0..MaxViewDelay : show_next_day_prices(delay)

SpecViews == InitViews /\ [][NextViews]_vars

----------------------------------------------------------------------------
(* What the claims speak about, stated on the response itself *)

\* the UTC instant that a timestamp string with a zone designator denotes
InstantOf(s) == IF s.zone = "Z" THEN s.wall ELSE s.wall - ZoneOffset

Parsable(s) == s.zone \in Zones

CompleteEntry(e) ==
    e.keys = EntryKeys /\ Parsable(e.startDate) /\ Parsable(e.endDate)

\* the request succeeds and the body has the documented structure
FetchSucceeds ==
    /\ server.status = "ok"
    /\ "prices" \in server.keys
    /\ \A i \in 1..Len(server.prices) : CompleteEntry(server.prices[i])

\* the price points of the response, in its order
Feed ==
    [i \in 1..Len(server.prices) |->
        PricePoint(server.prices[i].price,
                   InstantOf(server.prices[i].startDate),
                   InstantOf(server.prices[i].endDate))]

Covers(p, t) == p.start_date <= t /\ t < p.end_date

\* sorted, gap-free and non-overlapping
WellFormedFeed ==
    /\ \A i \in 1..Len(Feed) : Feed[i].start_date < Feed[i].end_date
    /\ \A i \in 1..(Len(Feed) - 1) : Feed[i].end_date = Feed[i + 1].start_date

\* gap-free and non-overlapping, in any order
ConsecutiveFeed ==
    /\ \A i \in 1..Len(Feed) : Feed[i].start_date < Feed[i].end_date
    /\ \A i, j \in 1..Len(Feed) :
          i # j => \/ Feed[i].end_date <= Feed[j].start_date
                   \/ Feed[j].end_date <= Feed[i].start_date
    /\ \A i \in 1..Len(Feed) :
          \/ \E j \in 1..Len(Feed) : Feed[j].end_date = Feed[i].start_date
          \/ \A j \in 1..Len(Feed) : Feed[i].start_date <= Feed[j].start_date

CalledCurrentAndNext ==
    result.op = "get_current_and_next_hour_prices" /\ FetchSucceeds

NoCurrentPriceError == Error("ValueError", "No current price found")

NoNextPriceError == Error("ValueError", "No next hour price found")

\* a pair (current, next) was returned with current covering the instant
\* of the call and next starting where current ends
ReturnedCurrentAndNext ==
    /\ result.kind = "ok"
    /\ Len(result.value) = 2
    /\ Covers(result.value[1], result.now)
    /\ result.value[2].start_date = result.value[1].end_date

----------------------------------------------------------------------------
(* C1 *)

\* C1 as stated: for every well-formed (sorted, gap-free, non-overlapping)
\* feed and every instant inside the union of its intervals, a pair
\* (current, next) is returned with current.start_date <= now <
\* current.end_date and next.start_date = current.end_date.
C1_AsStated ==
    (CalledCurrentAndNext /\ WellFormedFeed
        /\ \E i \in 1..Len(Feed) : Covers(Feed[i], result.now))
    => ReturnedCurrentAndNext

\* C1 amended: the same for every instant inside an interval of the feed
\* other than its last one (the last interval has no successor).
C1_PairBeforeLastInterval ==
    (CalledCurrentAndNext /\ WellFormedFeed
        /\ \E i \in 1..(Len(Feed) - 1) : Covers(Feed[i], result.now))
    => ReturnedCurrentAndNext

C1_Witness ==
    /\ CalledCurrentAndNext /\ WellFormedFeed
    /\ Len(Feed) = 3
    /\ Covers(Feed[2], result.now)
    /\ result.kind = "ok"
    /\ result.value = <<Feed[2], Feed[3]>>

----------------------------------------------------------------------------
(* C2 *)

\* C2: in a feed of consecutive points, in any order, with now inside P and
\* Q starting exactly where P ends, the call returns exactly (P, Q).
C2_ExactPairInAnyOrder ==
    (CalledCurrentAndNext /\ ConsecutiveFeed)
    => \A i, j \in 1..Len(Feed) :
          (Covers(Feed[i], result.now) /\ Feed[j].start_date = Feed[i].end_date)
          => (result.kind = "ok" /\ result.value = <<Feed[i], Feed[j]>>)

\* the successor comes before the current point in the response, with a
\* third point between them in time order elsewhere
C2_Witness ==
    /\ CalledCurrentAndNext /\ ConsecutiveFeed
    /\ Len(Feed) = 3
    /\ Covers(Feed[3], result.now)
    /\ Feed[1].start_date = Feed[3].end_date
    /\ result.kind = "ok"
    /\ result.value = <<Feed[3], Feed[1]>>

----------------------------------------------------------------------------
(* C3 *)

\* C3: the call fails with the no-current failure exactly when no point
\* of the feed satisfies start_date <= now < end_date.
C3_NoCurrentExactlyWhenUncovered ==
    CalledCurrentAndNext
    => ((result.kind = "error" /\ result.err = NoCurrentPriceError)
        <=> ~ \E i \in 1..Len(Feed) : Covers(Feed[i], result.now))

\* now falls in a gap between two points
C3_Witness ==
    /\ CalledCurrentAndNext
    /\ \E i, j \in 1..Len(Feed) :
          /\ Feed[i].start_date < Feed[i].end_date
          /\ Feed[i].end_date <= result.now
          /\ result.now < Feed[j].start_date
          /\ Feed[j].start_date < Feed[j].end_date
    /\ result.kind = "error"
    /\ result.err = NoCurrentPriceError

----------------------------------------------------------------------------
(* C4 *)

\* the index of the current point: among the points covering now the one
\* with the least start_date, the earliest in the response among equals
IsCurrentIndex(i) ==
    /\ i \in 1..Len(Feed)
    /\ Covers(Feed[i], result.now)
    /\ \A j \in 1..Len(Feed) :
          Covers(Feed[j], result.now)
          => \/ Feed[i].start_date < Feed[j].start_date
             \/ (Feed[i].start_date = Feed[j].start_date /\ i <= j)

\* C4: when a current point is found and no point starts exactly at its
\* end_date, the call fails with the no-next failure, which differs from
\* the no-current failure, and returns no pair; a returned pair always has
\* next.start_date = current.end_date; and the no-next failure is raised
\* only when some point covers now (the no-current check comes first).
C4_NoNextWhenNoSuccessor ==
    CalledCurrentAndNext
    => /\ \A i \in 1..Len(Feed) :
             (IsCurrentIndex(i)
                /\ ~ \E j \in 1..Len(Feed) : Feed[j].start_date = Feed[i].end_date)
             => (result.kind = "error" /\ result.value = <<>>
                   /\ result.err = NoNextPriceError)
       /\ NoNextPriceError # NoCurrentPriceError
       /\ result.kind = "ok" => ReturnedCurrentAndNext
       /\ (~ \E i \in 1..Len(Feed) : Covers(Feed[i], result.now))
             => (result.kind = "error" /\ result.err = NoCurrentPriceError)

\* now is inside the last interval of a well-formed feed
C4_Witness ==
    /\ CalledCurrentAndNext /\ WellFormedFeed
    /\ Len(Feed) = 2
    /\ Covers(Feed[2], result.now)
    /\ result.kind = "error"
    /\ result.err = NoNextPriceError

----------------------------------------------------------------------------
(* C5 *)

CalledDaily == result.op = "get_daily_prices" /\ FetchSucceeds

\* start_date lies in today's or in tomorrow's closed window, the UTC
\* calendar days of t
StartsTodayOrTomorrow(p, t) ==
    LET start_of_today == (t \div TicksPerDay) * TicksPerDay
    IN \/ /\ start_of_today <= p.start_date
          /\ p.start_date <= start_of_today + TicksPerDay - Microsecond
       \/ /\ start_of_today + TicksPerDay <= p.start_date
          /\ p.start_date <= start_of_today + 2 * TicksPerDay - Microsecond

KeptIndices == {i \in 1..Len(Feed) : StartsTodayOrTomorrow(Feed[i], result.now)}

\* C5: the call returns exactly the fetched points that start in today's
\* or tomorrow's window, each once and in the order of the response.
C5_ExactlyTheWindowInFeedOrder ==
    CalledDaily
    => /\ result.kind = "ok"
       /\ Len(result.value) = Cardinality(KeptIndices)
       /\ \E f \in [1..Len(result.value) -> KeptIndices] :
             /\ \A k \in 1..Len(result.value) : result.value[k] = Feed[f[k]]
             /\ \A k \in 1..(Len(result.value) - 1) : f[k] < f[k + 1]

\* a feed holding exactly one point for every tick of today, and nothing else
C5_Witness ==
    /\ CalledDaily
    /\ Len(Feed) = TicksPerDay
    /\ \A i \in 1..Len(Feed) :
          Feed[i].start_date = (result.now \div TicksPerDay) * TicksPerDay + i - 1
    /\ result.kind = "ok"
    /\ result.value = Feed

----------------------------------------------------------------------------
(* C6 *)

\* C6: when the fetch succeeds and no fetched point starts in today's or
\* tomorrow's window, the call returns the empty sequence and no error.
C6_EmptyWindowIsNoError ==
    (CalledDaily /\ KeptIndices = {})
    => (result.kind = "ok" /\ result.value = <<>> /\ result.err = NoError)

\* the feed holds points, all of them outside both windows
C6_Witness ==
    /\ CalledDaily
    /\ Len(Feed) >= 2
    /\ KeptIndices = {}
    /\ result.kind = "ok"
    /\ result.value = <<>>

----------------------------------------------------------------------------
(* C7 *)

CalledWithinLimits == result.op = "is_price_within_limits"

\* C7: the predicate reports within iff lower_limit <= price <= upper_limit,
\* both bounds inclusive, for every pair of limits; a price equal to
\* lower_limit or to upper_limit is within (the two limits being in order,
\* since otherwise no price lies between them); a price strictly below
\* lower_limit or strictly above upper_limit is not.
C7_InclusiveBounds ==
    CalledWithinLimits
    => /\ result.value[1]
            <=> (price_limits.lower_limit <= result.arg
                    /\ result.arg <= price_limits.upper_limit)
       /\ (price_limits.lower_limit <= price_limits.upper_limit
             /\ (result.arg = price_limits.lower_limit
                   \/ result.arg = price_limits.upper_limit)) => result.value[1]
       /\ (result.arg < price_limits.lower_limit
             \/ result.arg > price_limits.upper_limit) => ~ result.value[1]

\* a price equal to the lower limit, below the upper limit, is within
C7_Witness ==
    /\ CalledWithinLimits
    /\ price_limits.lower_limit < price_limits.upper_limit
    /\ result.arg = price_limits.lower_limit
    /\ result.value[1]

----------------------------------------------------------------------------
(* C8 *)

CalledLatest == result.op = "get_latest_prices"

\* C8: a successful fetch yields one PricePoint per entry of the prices
\* list, in the order of the response, nothing sorted, dropped or merged,
\* with price, start_date and end_date taken from that entry.
C8_OnePointPerEntryInOrder ==
    (CalledLatest /\ FetchSucceeds)
    => (result.kind = "ok" /\ result.value = Feed)

\* two entries, the later hour first, their timestamps written in two zones
C8_Witness ==
    /\ CalledLatest /\ FetchSucceeds
    /\ Len(Feed) = 2
    /\ Feed[1].start_date > Feed[2].start_date
    /\ server.prices[1].endDate.zone # server.prices[2].endDate.zone
    /\ result.kind = "ok"
    /\ result.value = Feed

----------------------------------------------------------------------------
(* C9 *)

\* the exceptions of a body without the expected structure: KeyError for a
\* missing key, ValueError for a timestamp that does not parse
FormatErrors == {"KeyError", "ValueError"}

BodyMalformed == server.status = "ok" /\ ~ FetchSucceeds

\* C9: a body without the prices key, an entry without price, startDate
\* or endDate, or a timestamp that does not parse makes the fetch fail
\* with a format failure (KeyError or ValueError); a failure of the
\* network or an error status makes it fail with a RequestException; the
\* two kinds are distinct.
C9_FormatFailureIsNotTransportFailure ==
    CalledLatest
    => /\ BodyMalformed
            => (result.kind = "error" /\ result.err.type \in FormatErrors
                  /\ result.err.type \notin RequestExceptions)
       /\ (server.status = "ok" /\ "prices" \notin server.keys)
            => result.err = Error("KeyError", "prices")
       /\ server.status # "ok"
            => (result.kind = "error" /\ result.err.type \in RequestExceptions
                  /\ result.err.type \notin FormatErrors)

C9_Witness ==
    /\ CalledLatest
    /\ server.status = "ok"
    /\ "prices" \notin server.keys
    /\ result.kind = "error"
    /\ result.err = Error("KeyError", "prices")

----------------------------------------------------------------------------
(* C10 *)

\* C10: when the request fails or any entry is malformed, get_latest_prices
\* returns no point at all, and get_current_and_next_hour_prices and
\* get_daily_prices raise that same failure: never a list, never the
\* no-current or no-next failure.
C10_FailureSurfacesWhole ==
    (result.op # "none" /\ result.op # "is_price_within_limits" /\ ~ FetchSucceeds)
    => /\ result.kind = "error"
       /\ result.value = <<>>
       /\ result.err.type \in (RequestExceptions \cup FormatErrors)
       /\ result.err # NoCurrentPriceError
       /\ result.err # NoNextPriceError
       /\ server.status # "ok" => result.err.type = server.status
       /\ result.err = get_latest_prices(server).err

\* the first entry is complete and covers now, the second is malformed
C10_Witness ==
    /\ result.op = "get_current_and_next_hour_prices"
    /\ server.status = "ok"
    /\ "prices" \in server.keys
    /\ Len(server.prices) = 2
    /\ CompleteEntry(server.prices[1])
    /\ Covers(Feed[1], result.now)
    /\ ~ CompleteEntry(server.prices[2])
    /\ result.kind = "error"
    /\ result.err.type \in FormatErrors

----------------------------------------------------------------------------
(* C11 *)

ClientOps ==
    {"get_latest_prices", "get_current_and_next_hour_prices", "get_daily_prices"}

\* a step that is a call of the client: the server keeps its answer and a
\* new outcome is recorded
ClientCallStep == server' = server /\ result'.op \in ClientOps

\* C11: every call of get_latest_prices, get_current_and_next_hour_prices
\* or get_daily_prices sends exactly one HTTP request, whether the request
\* succeeds or fails, and its outcome comes from the answer to that
\* request, not from an earlier one: it succeeds only if the present answer
\* is well-formed, and every point it returns is a point of the present
\* answer.
C11_OneRequestPerCall ==
    [][ClientCallStep
        => /\ Len(requests') = 1
           /\ result'.kind = "ok" => FetchSucceeds
           /\ (result'.kind = "ok" /\ result'.op = "get_latest_prices")
                => result'.value = Feed
           /\ result'.kind = "ok"
                => \A k \in 1..Len(result'.value) :
                      \E i \in 1..Len(Feed) : result'.value[k] = Feed[i]]_vars

\* a call that met a failing request after an earlier call had succeeded
\* would show here as a success; the failed call sent one request
C11_Witness ==
    /\ result.op = "get_current_and_next_hour_prices"
    /\ server.status = "HTTPError"
    /\ result.kind = "error"
    /\ result.err.type = "HTTPError"
    /\ Len(requests) = 1

----------------------------------------------------------------------------
(* C12 *)

\* C12 as stated: get_latest_prices and get_current_and_next_hour_prices
\* never complete successfully with an empty or absent result.
C12_AsStated ==
    (result.op \in {"get_latest_prices", "get_current_and_next_hour_prices"}
        /\ result.kind = "ok")
    => result.value # <<>>

\* C12 amended: get_current_and_next_hour_prices never completes
\* successfully with an empty or absent result (it returns two points or
\* raises); get_latest_prices completes successfully with an empty list
\* exactly when the prices list of the response is empty.
C12_OnlyThePairIsNeverEmpty ==
    /\ (result.op = "get_current_and_next_hour_prices" /\ result.kind = "ok")
          => Len(result.value) = 2
    /\ result.op = "get_latest_prices"
          => ((result.kind = "ok" /\ result.value = <<>>)
                <=> (server.status = "ok" /\ "prices" \in server.keys
                       /\ server.prices = <<>>))

\* the prices list is empty and the hour selection raises
C12_Witness ==
    /\ result.op = "get_current_and_next_hour_prices"
    /\ server = OkResponse(<<>>)
    /\ result.kind = "error"
    /\ result.err = NoCurrentPriceError

----------------------------------------------------------------------------
(* C13 *)

\* C13: every PricePoint that get_latest_prices returns has
\* start_date < end_date, whatever the server sends.
C13_StartBeforeEnd ==
    (CalledLatest /\ result.kind = "ok")
    => \A k \in 1..Len(result.value) :
          result.value[k].start_date < result.value[k].end_date

----------------------------------------------------------------------------
(* C16 *)

\* C16: when several points of the feed contain now, the current point is
\* the containing point with the smallest start_date and, among containing
\* points of equal start_date, the earliest in the feed: a successful call
\* returns that point first, and the call succeeds exactly when some point
\* starts at that point's end_date.
C16_FirstInStableSortIsCurrent ==
    (CalledCurrentAndNext /\ FetchSucceeds)
    => \A i \in 1..Len(Feed) :
          IsCurrentIndex(i)
          => /\ result.kind = "ok" => result.value[1] = Feed[i]
             /\ result.kind = "ok"
                  <=> \E j \in 1..Len(Feed) :
                         Feed[j].start_date = Feed[i].end_date

\* two containing points of equal start_date and different end_date, the
\* earlier one in the feed returned as the current point
C16_Witness ==
    /\ CalledCurrentAndNext
    /\ result.kind = "ok"
    /\ \E i, j \in 1..Len(Feed) :
          /\ i < j
          /\ Covers(Feed[i], result.now)
          /\ Covers(Feed[j], result.now)
          /\ Feed[i].start_date = Feed[j].start_date
          /\ Feed[i].end_date # Feed[j].end_date
          /\ result.value[1] = Feed[i]

----------------------------------------------------------------------------
(* C18 *)

\* the number of the three classifications that hold for the checked price
Classifications ==
    LET within == result.value[1]
        below == BelowLowerLimit(price_limits, result.arg)
        above == AboveUpperLimit(price_limits, result.arg)
    IN (IF within THEN 1 ELSE 0) + (IF below THEN 1 ELSE 0)
         + (IF above THEN 1 ELSE 0)

\* C18 as stated: for every pair of limits, including lower_limit >
\* upper_limit, and every price, exactly one of within, below and above holds.
C18_AsStated == CalledWithinLimits => Classifications = 1

\* C18 amended: at least one of within, below and above holds for every pair
\* of limits and every price; exactly one holds when lower_limit <=
\* upper_limit; when lower_limit > upper_limit no price is within, and below
\* and above hold together exactly for upper_limit < price < lower_limit.
C18_ExactlyOneWhenOrdered ==
    CalledWithinLimits
    => /\ Classifications >= 1
       /\ price_limits.lower_limit <= price_limits.upper_limit
             => Classifications = 1
       /\ price_limits.lower_limit > price_limits.upper_limit
             => /\ ~ result.value[1]
                /\ Classifications = 2
                     <=> (price_limits.upper_limit < result.arg
                            /\ result.arg < price_limits.lower_limit)

\* inverted limits and a price strictly between them: below and above at once
C18_Witness ==
    /\ CalledWithinLimits
    /\ price_limits.upper_limit < result.arg
    /\ result.arg < price_limits.lower_limit
    /\ BelowLowerLimit(price_limits, result.arg)
    /\ AboveUpperLimit(price_limits, result.arg)
    /\ ~ result.value[1]

----------------------------------------------------------------------------
(* C14 *)

UpdatedPrices == result.op = "update_prices"

\* the price of the point that covers the instant of the last update
CurrentPriceCrosses(a) ==
    \E i \in 1..Len(Feed) :
       /\ Covers(Feed[i], result.now)
       /\ \/ (a.radio \in {"lower", "both"} /\ Feed[i].price < a.lower)
          \/ (a.radio \in {"higher", "both"} /\ Feed[i].price > a.upper)

\* C14: after a successful update an alert is shown iff lower or both is
\* selected and the current price < lower_limit, or higher or both is
\* selected and the current price > upper_limit, with the limits read from
\* the spin boxes during that update; the next hour's price plays no part
\* and no box is shown when the current price is within the limits.
C14_AlertIffEnabledBoundCrossed ==
    (UpdatedPrices /\ result.kind = "ok")
    => LET a == result.arg
           price == result.value[1].price
       IN /\ price_limits = PriceLimits(a.lower, a.upper)
          /\ dialog.kind = "alert"
               <=> \/ (a.radio \in {"lower", "both"} /\ price < a.lower)
                   \/ (a.radio \in {"higher", "both"} /\ price > a.upper)
          /\ dialog.kind # "alert" => dialog = NoDialog
          /\ (a.lower <= price /\ price <= a.upper) => dialog = NoDialog

\* "both" is selected, the current price is within the limits, the next
\* hour's price is above the upper limit, and no box is shown
C14_Witness ==
    /\ UpdatedPrices
    /\ result.kind = "ok"
    /\ result.arg.radio = "both"
    /\ result.arg.lower <= result.value[1].price
    /\ result.value[1].price <= result.arg.upper
    /\ result.value[2].price > result.arg.upper
    /\ dialog = NoDialog

----------------------------------------------------------------------------
(* C19 *)

\* C19: whenever the fetch succeeds and the feed holds a point covering now
\* whose price is below lower_limit with lower notifications enabled, or
\* above upper_limit with higher notifications enabled, update_prices shows
\* the alert, also when the feed holds no point for the next hour.
C19_AlertWheneverCurrentCrosses ==
    (UpdatedPrices /\ FetchSucceeds /\ CurrentPriceCrosses(result.arg))
    => dialog.kind = "alert"

----------------------------------------------------------------------------
(* C20 *)

\* C20: an alert's message names the bound whose enabled notification
\* triggered it: "lower" only if lower notifications are enabled and price <
\* lower_limit, "higher" only if higher notifications are enabled and price >
\* upper_limit, for every pair of limits the spin boxes allow.
C20_MessageNamesTriggeringBound ==
    (UpdatedPrices /\ dialog.kind = "alert")
    => LET a == result.arg
       IN /\ dialog.text \in {"lower", "higher"}
          /\ dialog.text = "lower"
               => (a.radio \in {"lower", "both"} /\ dialog.price < a.lower)
          /\ dialog.text = "higher"
               => (a.radio \in {"higher", "both"} /\ dialog.price > a.upper)

----------------------------------------------------------------------------
(* C15 *)

\* C15: every timer-driven update_prices call happens at the start of a UTC
\* hour, the second and all later firings included.
C15_EveryFiringOnTheHour ==
    \A k \in 1..Len(timer.fired) : timer.fired[k] % TicksPerHour = 0

----------------------------------------------------------------------------
(* C17 *)

\* the frames of the GUI thread that wait inside requests.get
InFlight == {i \in 1..Len(stack) : stack[i].pc = "fetching"}

\* C17: at no time are two fetches in flight: a fetch is started only while
\* no other one is waiting, whichever of the timer, the Update button, the
\* theme selector and the two daily views starts it.
C17_AtMostOneFetchInFlight ==
    /\ Cardinality(InFlight) <= 1
    /\ \A i \in InFlight : i = Len(stack)

\* the timer fires while a box of the Update button's handler is open, and
\* its fetch is the only one in flight
C17_Witness ==
    /\ Len(stack) = 2
    /\ stack[1] = Frame("update_button", "dialog")
    /\ stack[2] = Frame("timer", "fetching")
    /\ InFlight = {2}

----------------------------------------------------------------------------
(* C21 *)

\* C21: change_theme leaves the selected notification preference and the
\* values shown in the two limit spin boxes as they were, values edited
\* since the last successful update included.
C21_ThemeChangeKeepsConfiguration ==
    [][change_theme
         => /\ radio' = radio
            /\ lower_limit_spin' = lower_limit_spin
            /\ upper_limit_spin' = upper_limit_spin]_vars

----------------------------------------------------------------------------
(* C22 *)

ViewShown ==
    /\ result.op \in {"show_daily_prices", "show_next_day_prices"}
    /\ FetchSucceeds

\* the view read the clock on the UTC day on which get_daily_prices read it,
\* as it does when both use one reference instant
OneReferenceDay == result.arg.now \div TicksPerDay = result.now \div TicksPerDay

\* C22: for one feed and one reference instant the today window and the
\* tomorrow window are disjoint and leave no gap at midnight: a point is
\* returned by get_daily_prices iff start_of_today <= start_date <
\* start_of_today + 2 days, every returned point is kept by exactly one of
\* the today filter and the tomorrow filter, the today view keeps the
\* returned points that start before the next midnight and the tomorrow view
\* the ones that start at or after it.
C22_WindowsPartitionTwoDays ==
    (ViewShown /\ OneReferenceDay)
    => LET start_of_today == (result.now \div TicksPerDay) * TicksPerDay
           midnight == start_of_today + TicksPerDay
           returned == result.arg.prices
           InTwoDays(p) == /\ start_of_today <= p.start_date
                           /\ p.start_date < start_of_today + 2 * TicksPerDay
           BeforeMidnight(p) == p.start_date < midnight
           FromMidnight(p) == p.start_date >= midnight
       IN /\ returned = SelectSeq(Feed, InTwoDays)
          /\ \A k \in 1..Len(returned) :
                InTodayWindow(returned[k], result.arg.now)
                  # InTomorrowWindow(returned[k], result.arg.now)
          /\ result.op = "show_daily_prices"
                => result.value = SelectSeq(returned, BeforeMidnight)
          /\ result.op = "show_next_day_prices"
                => result.value = SelectSeq(returned, FromMidnight)

\* one instant for both readings; the feed holds the last tick of today and
\* the first tick of tomorrow, and the today view keeps only the former
C22_Witness ==
    /\ ViewShown
    /\ result.op = "show_daily_prices"
    /\ result.arg.now = result.now
    /\ Len(result.arg.prices) = 2
    /\ result.arg.prices[1].start_date = StartOfDay(result.now) + TicksPerDay - 1
    /\ result.arg.prices[2].start_date = StartOfDay(result.now) + TicksPerDay
    /\ result.value = <<result.arg.prices[1]>>

====
